---- MODULE Spec2Model ----
(***************************************************************************)
(* The colour server of src/app.js: an HTTP request listener that answers  *)
(* '/', '/color', '/get-colors' and '/get-animal', the last one after an   *)
(* asynchronous read of files/animals.json.                                *)
(*                                                                         *)
(* JavaScript strings that the code inspects (variants, names) are         *)
(* sequences of one-character strings; text the code only copies (HTML     *)
(* fragments, hex codes, error messages) is a one-element sequence holding *)
(* the fragment, so that a page is the concatenation of its parts.         *)
(***************************************************************************)
EXTENDS Integers, Sequences, FiniteSets, TLC

VARIABLES
    colors,     \* the module-level array `colors`
    file,       \* the present content of files/animals.json
    req,        \* req[c]: the request on connection c
    pc,         \* pc[c]: where the listener is with that request
    variantOf,  \* variantOf[c]: the listener's local `variant` across the await
    data,       \* data[c]: what the awaited fs.readFile produced
    res,        \* res[c]: the response object (writeHead/end calls and what they sent)
    atRead      \* history: the content the file had when c's read completed

vars == <<colors, file, req, pc, variantOf, data, res, atRead>>

(***************************************************************************)
(* Bounds of the model.                                                    *)
(***************************************************************************)
\* Concurrent connections of the concurrent specification.
MaxConn == 2
\* Math.random() is drawn from {0/RandRes, ..., (RandRes-1)/RandRes}.
RandRes == 30

(***************************************************************************)
(* JavaScript values read from the query or from the JSON file.            *)
(***************************************************************************)
Undefined == [t |-> "undefined", s |-> <<>>]
Null == [t |-> "null", s |-> <<>>]
Str(s) == [t |-> "string", s |-> s]

RECURSIVE join(_, _)
\* Array.prototype.join, used by String(array)
join(items, sep) ==
    IF items = <<>> THEN <<>>
    ELSE IF Len(items) = 1 THEN items[1]
    ELSE items[1] \o sep \o join(Tail(items), sep)

\* An array of strings; the code only ever stringifies it.
Arr(items) == [t |-> "array", s |-> join(items, <<",">>)]

\* String(v), and `${v}` in a template literal
String(v) ==
    CASE v.t = "undefined" -> <<"u","n","d","e","f","i","n","e","d">>
      [] v.t = "null" -> <<"n","u","l","l">>
      [] OTHER -> v.s

\* JavaScript truthiness of a value
Truthy(v) == v.t = "array" \/ (v.t = "string" /\ v.s # <<>>)

UpperCase == <<"A","B","C","D","E","F","G","H","I","J","K","L","M",
               "N","O","P","Q","R","S","T","U","V","W","X","Y","Z">>
LowerCase == <<"a","b","c","d","e","f","g","h","i","j","k","l","m",
               "n","o","p","q","r","s","t","u","v","w","x","y","z">>

toLowerChar(c) ==
    IF \E i \in 1..Len(UpperCase) : UpperCase[i] = c
    THEN LowerCase[CHOOSE i \in 1..Len(UpperCase) : UpperCase[i] = c]
    ELSE c

\* String.prototype.toLowerCase
toLowerCase(s) == [i \in 1..Len(s) |-> toLowerChar(s[i])]

IsSpace(c) == c \in {" ", "\t"}

RECURSIVE trimStart(_)
trimStart(s) ==
    IF s # <<>> /\ IsSpace(s[1]) THEN trimStart(Tail(s)) ELSE s

RECURSIVE trimEnd(_)
trimEnd(s) ==
    IF s # <<>> /\ IsSpace(s[Len(s)]) THEN trimEnd(SubSeq(s, 1, Len(s) - 1)) ELSE s

\* String.prototype.trim
trim(s) == trimEnd(trimStart(s))

RECURSIVE encodeURIComponent(_)
\* encodeURIComponent on letters and spaces
encodeURIComponent(s) ==
    IF s = <<>> THEN <<>>
    ELSE (IF s[1] = " " THEN <<"%","2","0">> ELSE <<s[1]>>)
         \o encodeURIComponent(Tail(s))

(***************************************************************************)
(* The colour registry (app.js lines 6-22).                                *)
(***************************************************************************)
Registry == <<
    [variant |-> <<"V","e","r","m","i","l","l","i","o","n">>, hex |-> <<"#2E191B">>],
    [variant |-> <<"F","o","r","e","s","t">>, hex |-> <<"#0B6623">>],
    [variant |-> <<"N","a","v","y">>, hex |-> <<"#000080">>],
    [variant |-> <<"C","r","i","m","s","o","n">>, hex |-> <<"#DC143C">>],
    [variant |-> <<"S","k","y"," ","B","l","u","e">>, hex |-> <<"#87CEEB">>],
    [variant |-> <<"L","i","m","e">>, hex |-> <<"#00FF00">>],
    [variant |-> <<"G","o","l","d">>, hex |-> <<"#FFD700">>],
    [variant |-> <<"L","a","v","e","n","d","e","r">>, hex |-> <<"#E6E6FA">>],
    [variant |-> <<"T","a","n","g","e","r","i","n","e">>, hex |-> <<"#F28500">>],
    [variant |-> <<"M","a","g","e","n","t","a">>, hex |-> <<"#FF00FF">>],
    [variant |-> <<"C","y","a","n">>, hex |-> <<"#00FFFF">>],
    [variant |-> <<"O","l","i","v","e">>, hex |-> <<"#808000">>],
    [variant |-> <<"T","e","a","l">>, hex |-> <<"#008080">>],
    [variant |-> <<"M","a","r","o","o","n">>, hex |-> <<"#800000">>],
    [variant |-> <<"C","o","r","a","l">>, hex |-> <<"#FF7F50">>] >>

\* colors[i] of a JavaScript array: undefined outside 0..length-1
NoColor == [variant |-> <<>>, hex |-> <<"undefined">>]
colorAt(i) == IF i \in 0..(Len(colors) - 1) THEN colors[i + 1] ELSE NoColor

\* Case-sensitive comparison: what eqCi would be without toLowerCase.
eqCi_caseSensitive(a, b) == String(a) = String(b)

\* eqCi (line 28)
eqCi(a, b) == toLowerCase(String(a)) = toLowerCase(String(b))

\* An index computed with Math.ceil instead of Math.floor.
getRandomColor_ceil(k) == colorAt(((k * Len(colors)) + RandRes - 1) \div RandRes)

\* getRandomColor (line 31), for Math.random() = k / RandRes
getRandomColor(k) == colorAt((k * Len(colors)) \div RandRes)

RECURSIVE findColorFrom(_, _)
findColorFrom(i, variant) ==
    IF i > Len(colors) THEN NoColor
    ELSE IF eqCi(Str(colors[i].variant), Str(variant)) THEN colors[i]
    ELSE findColorFrom(i + 1, variant)

\* colors.find(color => eqCi(color.variant, variant)) (line 112)
findColor(variant) == findColorFrom(1, variant)

(***************************************************************************)
(* Responses.                                                              *)
(***************************************************************************)
NoRes == [heads |-> 0, ends |-> 0, status |-> 0, ctype |-> "", body |-> <<>>]

\* sendHtml (lines 34-37): writeHead then end
sendHtml(r, html, status) ==
    [heads |-> r.heads + 1, ends |-> r.ends + 1, status |-> status,
     ctype |-> "text/html; charset=utf-8", body |-> html]

\* sendText (lines 40-43)
sendText(r, text, status) ==
    [heads |-> r.heads + 1, ends |-> r.ends + 1, status |-> status,
     ctype |-> "text/plain; charset=utf-8", body |-> text]

\* page (lines 46-67): the shell around title and body
page(title, body) ==
    <<"<!doctype html><html lang=es><head><meta charset><title>">>
    \o title
    \o <<"</title><meta viewport><style></style></head><body>">>
    \o body
    \o <<"</body></html>">>

\* The fragment both /color branches send (lines 114, 119)
colorFragment(c) ==
    <<"<p style=color:">> \o c.hex \o <<">">> \o c.hex \o <<"</p>">>

WelcomePage ==
    page(<<"Bienvenidos">>,
         <<"<h1>Bienvenidos al servidor de colores</h1><ul>",
           "<li>/color - Devuelve el primer color del array</li>",
           "<li>/color?variant=Vermillion</li><li>/get-colors</li>",
           "<li>/get-animal?variant=Vermillion</li></ul>">>)

RECURSIVE colorItems(_)
\* colors.map(...).join('\n') (lines 124-135)
colorItems(i) ==
    IF i > Len(colors) THEN <<>>
    ELSE <<"<li><a href=/color?variant=">>
         \o encodeURIComponent(colors[i].variant)
         \o <<"><span class=swatch style=background:">> \o colors[i].hex
         \o <<"></span>">> \o colors[i].variant
         \o <<"<span class=muted>">> \o colors[i].hex
         \o <<"</span></a> - <a class=muted href=/get-animal?variant=">>
         \o encodeURIComponent(colors[i].variant)
         \o <<">ver animal</a></li>">>
         \o (IF i < Len(colors) THEN <<"\n">> ELSE <<>>)
         \o colorItems(i + 1)

ColorsPage ==
    page(<<"Colores disponibles">>,
         <<"<h1>Colores disponibles</h1><ul>">> \o colorItems(1)
         \o <<"</ul><p><a href=/>Volver</a></p>">>)

MissingParamPage ==
    page(<<"Falta parametro">>,
         <<"<h1>Falta el parametro <code>variant</code></h1>",
           "<p><a href=/>Volver</a></p>">>)

AnimalNotFoundPage(variant) ==
    page(<<"No encontrado">>,
         <<"<h1>Animal no encontrado para <code>">> \o variant
         \o <<"</code></h1><p><a href=/>Volver</a></p>">>)

AnimalPage(animal) ==
    page(String(animal.animalName) \o <<" (">> \o String(animal.variant) \o <<")">>,
         <<"<h1>">> \o String(animal.animalName)
         \o <<" <small class=muted>(">> \o String(animal.variant)
         \o <<")</small></h1><p><img width=300 src=">>
         \o String(animal.urlImage) \o <<" alt=">>
         \o String(animal.animalName) \o <<"></p><p><a href=/>Volver</a></p>">>)

ErrorPage(message) ==
    page(<<"Error del servidor">>,
         <<"<h1>Error cargando <code>files/animals.json</code></h1><pre>">>
         \o message \o <<"</pre><p><a href=/>Volver</a></p>">>)

NotFoundPage ==
    page(<<"404">>, <<"<h1>404 - Ruta no encontrada</h1><p><a href=/>Volver</a></p>">>)

(***************************************************************************)
(* files/animals.json and its reading.  A file is missing, or present with *)
(* a text that is no JSON, a JSON value that is no array, or an array of   *)
(* entries; an entry is null or an object with optional fields.            *)
(***************************************************************************)
Entry(variant, animalName, urlImage) ==
    [kind |-> "object", variant |-> variant, animalName |-> animalName,
     urlImage |-> urlImage]
NullEntry ==
    [kind |-> "null", variant |-> Undefined, animalName |-> Undefined,
     urlImage |-> Undefined]
\* the value of animals.find(...) when nothing matches
NoAnimal ==
    [kind |-> "undefined", variant |-> Undefined, animalName |-> Undefined,
     urlImage |-> Undefined]

FileOf(state, syntax, items) == [state |-> state, syntax |-> syntax, items |-> items]
\* no read has happened
NotRead == FileOf("unread", "invalid", <<>>)
NoData == [status |-> "none", content |-> NotRead, message |-> <<>>]

\* fs.readFile(jsonPath, 'utf-8') (line 72) on the file as it is now
readFile(f) ==
    IF f.state = "present"
    THEN [status |-> "ok", content |-> f, message |-> <<>>]
    ELSE [status |-> "error", content |-> NotRead,
          message |-> <<"ENOENT: no such file or directory">>]

\* JSON.parse(file) (line 73)
JSONparse(text) ==
    IF text.syntax = "invalid"
    THEN [threw |-> TRUE, message |-> <<"Unexpected token in JSON">>,
          kind |-> "none", items |-> <<>>]
    ELSE [threw |-> FALSE, message |-> <<>>, kind |-> text.syntax,
          items |-> IF text.syntax = "array" THEN text.items ELSE <<>>]

\* a?.variant : undefined for null (and for a missing field)
optVariant(a) == IF a.kind = "object" THEN a.variant ELSE Undefined

RECURSIVE findAnimalFrom(_, _, _)
\* animals.find(a => a?.variant && eqCi(a.variant, variant)) (line 75)
findAnimalFrom(animals, i, variant) ==
    IF i > Len(animals) THEN NoAnimal
    ELSE IF Truthy(optVariant(animals[i])) /\ eqCi(animals[i].variant, Str(variant))
         THEN animals[i]
    ELSE findAnimalFrom(animals, i + 1, variant)

\* findAnimalByVariant without the Array.isArray guard: .find on a value
\* that is no array throws a TypeError.
findAnimalByVariant_noArrayCheck(variant, rd) ==
    IF rd.status = "error"
    THEN [threw |-> TRUE, message |-> rd.message, animal |-> NoAnimal]
    ELSE LET parsed == JSONparse(rd.content) IN
         IF parsed.threw
         THEN [threw |-> TRUE, message |-> parsed.message, animal |-> NoAnimal]
         ELSE IF parsed.kind # "array"
         THEN [threw |-> TRUE, message |-> <<"animals.find is not a function">>,
               animal |-> NoAnimal]
         ELSE [threw |-> FALSE, message |-> <<>>,
               animal |-> findAnimalFrom(parsed.items, 1, variant)]

\* findAnimalByVariant (lines 70-76), given what the awaited read produced
findAnimalByVariant(variant, rd) ==
    IF rd.status = "error"
    THEN [threw |-> TRUE, message |-> rd.message, animal |-> NoAnimal]
    ELSE LET parsed == JSONparse(rd.content) IN
         IF parsed.threw
         THEN [threw |-> TRUE, message |-> parsed.message, animal |-> NoAnimal]
         ELSE IF parsed.kind # "array"
         THEN [threw |-> FALSE, message |-> <<>>, animal |-> NoAnimal]
         ELSE [threw |-> FALSE, message |-> <<>>,
               animal |-> findAnimalFrom(parsed.items, 1, variant)]

(***************************************************************************)
(* Requests.                                                               *)
(***************************************************************************)
NoReq == [method |-> "", url |-> [pathname |-> "", params |-> <<>>]]
Request(method, pathname, params) ==
    [method |-> method, url |-> [pathname |-> pathname, params |-> params]]
Param(k, v) == [k |-> k, v |-> v]

RECURSIVE valuesOf(_, _)
valuesOf(params, key) ==
    IF params = <<>> THEN <<>>
    ELSE (IF params[1].k = key THEN <<params[1].v>> ELSE <<>>)
         \o valuesOf(Tail(params), key)

\* query[key] of url.parse(req.url, true): absent, a string, or an array
\* when the key is repeated
queryGet(params, key) ==
    LET vs == valuesOf(params, key) IN
    IF vs = <<>> THEN Undefined
    ELSE IF Len(vs) = 1 THEN Str(vs[1])
    ELSE Arr(vs)

\* The normalisation without the trim.
normVariant_noTrim(params) ==
    LET v == queryGet(params, "variant") IN
    IF v.t \in {"undefined", "null"} THEN <<>> ELSE String(v)

\* query?.variant != null ? String(query.variant).trim() : '' (lines 109, 153)
normVariant(params) ==
    LET v == queryGet(params, "variant") IN
    IF v.t \in {"undefined", "null"} THEN <<>> ELSE trim(String(v))

\* A method test that lets POST through as well.
methodAllowed_post(method) == method \in {"GET", "POST"}

\* req.method !== 'GET' (line 81), negated
methodAllowed(method) == method = "GET"

\* Routing that ignores letter case and a trailing slash.
route_loose(pathname) ==
    IF pathname = "/" THEN "root"
    ELSE IF pathname \in {"/color", "/Color", "/color/"} THEN "color"
    ELSE IF pathname = "/get-colors" THEN "get-colors"
    ELSE IF pathname = "/get-animal" THEN "get-animal"
    ELSE "fallback"

\* the chain of pathname === tests (lines 89, 107, 123, 152) and the
\* fallback (line 201)
route(pathname) ==
    IF pathname = "/" THEN "root"
    ELSE IF pathname = "/color" THEN "color"
    ELSE IF pathname = "/get-colors" THEN "get-colors"
    ELSE IF pathname = "/get-animal" THEN "get-animal"
    ELSE "fallback"

(***************************************************************************)
(* Inputs: the requests a client may send and the contents the animals     *)
(* file may have.                                                          *)
(***************************************************************************)
Navy == <<"N","a","v","y">>
SkyBlue == <<"S","k","y"," ","B","l","u","e">>
Whale == <<"W","h","a","l","e">>
Shark == <<"S","h","a","r","k">>
Jay == <<"J","a","y">>
Ghost == <<"G","h","o","s","t">>
Url1 == <<"/img/whale.png">>
Url2 == <<"/img/shark.png">>
Url3 == <<"/img/jay.png">>

toUpperChar(c) ==
    IF \E i \in 1..Len(LowerCase) : LowerCase[i] = c
    THEN UpperCase[CHOOSE i \in 1..Len(LowerCase) : LowerCase[i] = c]
    ELSE c

\* every spelling of s in upper and lower case letters
CaseVariants(s) ==
    LET letters == {toLowerChar(s[i]) : i \in 1..Len(s)}
                   \cup {toUpperChar(s[i]) : i \in 1..Len(s)}
        spellings == {t \in [1..Len(s) -> letters] :
                        \A i \in 1..Len(s) : toLowerChar(t[i]) = toLowerChar(s[i])}
    IN {SubSeq(t, 1, Len(s)) : t \in spellings}

QueryValues ==
    CaseVariants(Navy)
    \cup { <<>>, <<" ">>, <<" ","\t">>,
           <<" ","n","a","v","y"," ">>, <<"\t","N","A","V","Y">>,
           <<"N","a","v">>, <<"N","a","v","y","y">>, <<"N","a"," ","v","y">>,
           <<"N","o","p","e">>,
           SkyBlue, <<"s","k","y"," ","b","l","u","e">>, <<"S","k","y","B","l","u","e">>,
           <<"v","e","r","m","i","l","l","i","o","n">>,
           <<"C","O","R","A","L">> }

QueryStrings ==
    { <<>>, <<Param("x", Navy)>> }
    \cup { <<Param("variant", v)>> : v \in QueryValues }
    \cup { <<Param("x", Navy), Param("variant", v)>> : v \in {Navy, <<>>} }
    \cup { <<Param("variant", v), Param("variant", w)>> :
             v \in {Navy, <<>>}, w \in {Navy, <<>>} }

Methods == {"GET", "POST", "DELETE"}
Paths == {"/", "/color", "/get-colors", "/get-animal", "/color/", "/Color", "/animals"}

Requests == { Request(m, p, q) : m \in Methods, p \in Paths, q \in QueryStrings }

NonArrayKinds == {"object", "number", "string", "true", "false", "null"}

TwoNavy ==
    <<Entry(Str(Navy), Str(Whale), Str(Url1)),
      Entry(Str(<<"n","a","v","y">>), Str(Shark), Str(Url2))>>
Tolerant ==
    <<NullEntry,
      Entry(Undefined, Str(Ghost), Str(Url2)),
      Entry(Str(<<>>), Str(Ghost), Str(Url2)),
      Entry(Null, Str(Ghost), Str(Url2)),
      Entry(Str(<<"s","k","y"," ","b","l","u","e">>), Str(Jay), Str(Url3)),
      Entry(Str(Navy), Str(Whale), Str(Url1))>>
NavyBare == <<Entry(Str(Navy), Undefined, Undefined)>>
NavyNoImage == <<NullEntry, Entry(Str(<<"N","A","V","Y">>), Str(Whale), Undefined)>>
NavyNoName == <<Entry(Str(Navy), Undefined, Str(Url1))>>

ArrayFiles ==
    { FileOf("present", "array", items) :
        items \in {<<>>, TwoNavy, Tolerant, NavyBare, NavyNoImage, NavyNoName} }

Files ==
    { FileOf("missing", "invalid", <<>>), FileOf("present", "invalid", <<>>) }
    \cup { FileOf("present", k, <<>>) : k \in NonArrayKinds }
    \cup ArrayFiles

\* the inputs of the concurrent specification
ConcRequests ==
    { Request("GET", "/get-animal", <<Param("variant", Navy)>>),
      Request("GET", "/get-animal", <<Param("variant", <<" ","j","a","y"," ">>)>>),
      Request("GET", "/get-animal", <<>>),
      Request("POST", "/get-animal", <<Param("variant", Navy)>>),
      Request("GET", "/color", <<Param("variant", Navy)>>),
      Request("GET", "/animals", <<>>) }

ConcFiles ==
    { FileOf("missing", "invalid", <<>>), FileOf("present", "invalid", <<>>),
      FileOf("present", "object", <<>>),
      FileOf("present", "array", TwoNavy),
      FileOf("present", "array",
             <<Entry(Str(<<"J","a","y">>), Str(Jay), Str(Url3)),
               Entry(Str(Navy), Str(Shark), Str(Url2))>>) }

Conns == 1..MaxConn

(***************************************************************************)
(* The state machine.  pc[c] is where connection c's request is: no        *)
(* request ("idle"), received and not yet handled ("received"), suspended  *)
(* at the await of line 168 with the read outstanding ("awaitRead") or     *)
(* completed ("readDone"), answered ("done"), or ended by an exception     *)
(* that left the listener ("failed").                                      *)
(***************************************************************************)
InitFrom(contents) ==
    /\ colors = Registry
    /\ file \in contents
    /\ req = [c \in Conns |-> NoReq]
    /\ pc = [c \in Conns |-> "idle"]
    /\ variantOf = [c \in Conns |-> <<>>]
    /\ data = [c \in Conns |-> NoData]
    /\ res = [c \in Conns |-> NoRes]
    /\ atRead = [c \in Conns |-> NotRead]

Init == InitFrom(Files)

\* a request arrives on connection c
Arrive(c, rq) ==
    /\ pc[c] = "idle"
    /\ req' = [req EXCEPT ![c] = rq]
    /\ pc' = [pc EXCEPT ![c] = "received"]
    /\ UNCHANGED <<colors, file, variantOf, data, res, atRead>>

\* the listener returns after sending `response`
Respond(c, response) ==
    /\ res' = [res EXCEPT ![c] = response]
    /\ pc' = [pc EXCEPT ![c] = "done"]

\* an exception leaves the listener: nothing is sent, and the rejected
\* promise is unhandled, which the runtime may answer by ending the process
Throw(c) ==
    /\ pc' = [pc EXCEPT ![c] = "failed"]
    /\ UNCHANGED res

\* the listener suspends at `await findAnimalByVariant(variant)`
Await(c, variant) ==
    /\ variantOf' = [variantOf EXCEPT ![c] = variant]
    /\ pc' = [pc EXCEPT ![c] = "awaitRead"]
    /\ UNCHANGED res

\* sending the fragment of a colour; reading .hex of undefined throws
SendColor(c, chosen) ==
    IF chosen = NoColor THEN Throw(c)
    ELSE Respond(c, sendHtml(res[c], colorFragment(chosen), 200))

\* The request listener (lines 79-209) up to its first suspension.
Handler(c) ==
    /\ pc[c] = "received"
    /\ LET method == req[c].method
           pathname == req[c].url.pathname
           query == req[c].url.params
           variant == normVariant(query)
       IN
       IF ~methodAllowed(method)
       THEN Respond(c, sendText(res[c], <<"Method Not Allowed">>, 405))
            /\ UNCHANGED variantOf
       ELSE IF route(pathname) = "root"
       THEN Respond(c, sendHtml(res[c], WelcomePage, 200)) /\ UNCHANGED variantOf
       ELSE IF route(pathname) = "color"
       THEN /\ IF variant # <<>>
               THEN LET found == findColor(variant) IN
                    IF found # NoColor THEN SendColor(c, found)
                    ELSE \E k \in 0..(RandRes - 1) : SendColor(c, getRandomColor(k))
               ELSE \E k \in 0..(RandRes - 1) : SendColor(c, getRandomColor(k))
            /\ UNCHANGED variantOf
       ELSE IF route(pathname) = "get-colors"
       THEN Respond(c, sendHtml(res[c], ColorsPage, 200)) /\ UNCHANGED variantOf
       ELSE IF route(pathname) = "get-animal"
       THEN IF variant = <<>>
            THEN Respond(c, sendHtml(res[c], MissingParamPage, 400))
                 /\ UNCHANGED variantOf
            ELSE Await(c, variant)
       ELSE Respond(c, sendHtml(res[c], NotFoundPage, 404)) /\ UNCHANGED variantOf
    /\ UNCHANGED <<colors, file, req, data, atRead>>

\* A read that is served from what another request has read already.
ReadFile_cached(c) ==
    /\ pc[c] = "awaitRead"
    /\ IF \E q \in Conns : data[q] # NoData
       THEN \E q \in Conns : data[q] # NoData /\ data' = [data EXCEPT ![c] = data[q]]
       ELSE data' = [data EXCEPT ![c] = readFile(file)]
    /\ atRead' = [atRead EXCEPT ![c] = file]
    /\ pc' = [pc EXCEPT ![c] = "readDone"]
    /\ UNCHANGED <<colors, file, req, variantOf, res>>

\* fs.readFile completes (line 72): the content is the file's at this moment
ReadFile(c) ==
    /\ pc[c] = "awaitRead"
    /\ data' = [data EXCEPT ![c] = readFile(file)]
    /\ atRead' = [atRead EXCEPT ![c] = file]
    /\ pc' = [pc EXCEPT ![c] = "readDone"]
    /\ UNCHANGED <<colors, file, req, variantOf, res>>

\* the answer of /get-animal once the lookup has settled (lines 168-198)
AnimalResponse(c, variant) ==
    LET out == findAnimalByVariant(variant, data[c]) IN
    IF out.threw
    THEN sendHtml(res[c], ErrorPage(out.message), 500)
    ELSE IF out.animal = NoAnimal
    THEN sendHtml(res[c], AnimalNotFoundPage(variant), 404)
    ELSE sendHtml(res[c], AnimalPage(out.animal), 200)

\* A listener whose `variant` is shared by all requests: it holds the value
\* of whichever suspended request assigned it last.
Resume_sharedVariant(c) ==
    /\ pc[c] = "readDone"
    /\ \E q \in Conns :
         /\ pc[q] \in {"awaitRead", "readDone"}
         /\ Respond(c, AnimalResponse(c, variantOf[q]))
    /\ UNCHANGED <<colors, file, req, variantOf, data, atRead>>

\* The listener resumes after the await (lines 73-75, 168-198).
Resume(c) ==
    /\ pc[c] = "readDone"
    /\ Respond(c, AnimalResponse(c, variantOf[c]))
    /\ UNCHANGED <<colors, file, req, variantOf, data, atRead>>

\* the connection is over; the listener's locals are gone
Close(c) ==
    /\ pc[c] \in {"done", "failed"}
    /\ req' = [req EXCEPT ![c] = NoReq]
    /\ pc' = [pc EXCEPT ![c] = "idle"]
    /\ variantOf' = [variantOf EXCEPT ![c] = <<>>]
    /\ data' = [data EXCEPT ![c] = NoData]
    /\ res' = [res EXCEPT ![c] = NoRes]
    /\ atRead' = [atRead EXCEPT ![c] = NotRead]
    /\ UNCHANGED <<colors, file>>

\* somebody else rewrites, removes or restores files/animals.json
EditFile(f) ==
    /\ f # file
    /\ file' = f
    /\ UNCHANGED <<colors, req, pc, variantOf, data, res, atRead>>

\* One connection, every request and every file content.
Next ==
    \/ \E rq \in Requests : Arrive(1, rq)
    \/ Handler(1)
    \/ ReadFile(1)
    \/ Resume(1)
    \/ Close(1)
    \/ \E f \in Files : EditFile(f)

Spec == Init /\ [][Next]_vars

\* MaxConn connections served concurrently.
InitConc == InitFrom(ConcFiles)

NextConc ==
    \/ \E c \in Conns : \E rq \in ConcRequests : Arrive(c, rq)
    \/ \E c \in Conns : Handler(c)
    \/ \E c \in Conns : ReadFile(c)
    \/ \E c \in Conns : Resume(c)
    \/ \E c \in Conns : Close(c)
    \/ \E f \in ConcFiles : EditFile(f)

SpecConc == InitConc /\ [][NextConc]_vars

(***************************************************************************)
(* Vocabulary of the properties, stated without the code's own helpers     *)
(* where the property is about what those helpers compute.                 *)
(***************************************************************************)
Done(c) == pc[c] = "done"
IsGet(c, pathname) == req[c].method = "GET" /\ req[c].url.pathname = pathname
Answered(c, status) == res[c].heads = 1 /\ res[c].ends = 1 /\ res[c].status = status

\* s without its leading and trailing white space
Stripped(s) ==
    LET cuts == {ij \in (1..(Len(s) + 1)) \X (0..Len(s)) :
                    /\ ij[1] <= ij[2] + 1
                    /\ \A k \in 1..(ij[1] - 1) : IsSpace(s[k])
                    /\ \A k \in (ij[2] + 1)..Len(s) : IsSpace(s[k])
                    /\ ij[1] <= ij[2] => ~IsSpace(s[ij[1]]) /\ ~IsSpace(s[ij[2]])}
        ij == CHOOSE x \in cuts : \A y \in cuts : x[2] - x[1] <= y[2] - y[1]
    IN SubSeq(s, ij[1], ij[2])

\* the request's 'variant' parameter after trimming; empty when absent
TrimmedVariant(c) ==
    LET v == queryGet(req[c].url.params, "variant") IN
    IF v = Undefined THEN <<>> ELSE Stripped(String(v))

SameLetters(a, b) ==
    /\ Len(a) = Len(b)
    /\ \A i \in 1..Len(a) : toLowerChar(a[i]) = toLowerChar(b[i])

Contains(hay, needle) ==
    \E i \in 0..(Len(hay) - Len(needle)) : SubSeq(hay, i + 1, i + Len(needle)) = needle

ReadFails(f) == f.state # "present" \/ f.syntax = "invalid"
EntriesOf(f) == IF f.state = "present" /\ f.syntax = "array" THEN f.items ELSE <<>>
MatchingEntries(f, v) ==
    {i \in 1..Len(EntriesOf(f)) :
        /\ EntriesOf(f)[i].kind = "object"
        /\ EntriesOf(f)[i].variant.t = "string"
        /\ SameLetters(EntriesOf(f)[i].variant.s, v)}
FirstMatch(f, v) ==
    EntriesOf(f)[CHOOSE i \in MatchingEntries(f, v) : \A j \in MatchingEntries(f, v) : i <= j]

\* the status of /get-animal for trimmed variant v and file content f
ExpectedStatus(v, f) ==
    IF v = <<>> THEN 400
    ELSE IF ReadFails(f) THEN 500
    ELSE IF MatchingEntries(f, v) = {} THEN 404
    ELSE 200

ShowsField(body, field) == field.t = "string" => Contains(body, field.s)
HexFragment(hex) == <<"<p style=color:">> \o hex \o <<">">> \o hex \o <<"</p>">>

(***************************************************************************)
(* C1: a request whose method is not GET is answered 405 with the plain    *)
(* text 'Method Not Allowed' on every path and with every query, and it    *)
(* never gets as far as reading the animals file.                          *)
(***************************************************************************)
C1_NonGetIs405 ==
    \A c \in Conns :
        (pc[c] # "idle" /\ req[c].method # "GET") =>
            /\ pc[c] \in {"received", "done"}
            /\ atRead[c] = NotRead /\ data[c] = NoData
            /\ Done(c) =>
                 /\ Answered(c, 405)
                 /\ res[c].ctype = "text/plain; charset=utf-8"
                 /\ res[c].body = <<"Method Not Allowed">>

C1_Witness ==
    /\ Done(1) /\ req[1].method = "DELETE"
    /\ req[1].url.pathname = "/get-animal" /\ TrimmedVariant(1) = Navy
    /\ file = FileOf("present", "array", TwoNavy)
    /\ res[1].status = 405

(***************************************************************************)
(* C2: GET /get-animal answers 400 without reading the file when the       *)
(* trimmed variant is empty or absent; otherwise it reads the file and     *)
(* answers 500 when the read or the parse fails, 404 when no entry's       *)
(* variant equals the trimmed variant up to letter case, and 200 with the  *)
(* animalName and urlImage of the first such entry when there is one.      *)
(***************************************************************************)
C2_GetAnimalStatus ==
    \A c \in Conns :
        (Done(c) /\ IsGet(c, "/get-animal")) =>
            LET v == TrimmedVariant(c) IN
            /\ Answered(c, ExpectedStatus(v, atRead[c]))
            /\ (v = <<>>) <=> (atRead[c] = NotRead)
            /\ res[c].status = 200 =>
                 /\ ShowsField(res[c].body, FirstMatch(atRead[c], v).animalName)
                 /\ ShowsField(res[c].body, FirstMatch(atRead[c], v).urlImage)

C2_Witness ==
    /\ Done(1) /\ IsGet(1, "/get-animal")
    /\ queryGet(req[1].url.params, "variant") = Str(<<" ","n","a","v","y"," ">>)
    /\ atRead[1] = FileOf("present", "array", TwoNavy)
    /\ res[1].status = 200
    /\ Contains(res[1].body, Whale) /\ ~Contains(res[1].body, Shark)

(***************************************************************************)
(* C3: GET /color whose trimmed variant names a registry entry up to       *)
(* letter case answers 200 with exactly that entry's hex code.             *)
(***************************************************************************)
C3_ColorByName ==
    \A c \in Conns :
        (Done(c) /\ IsGet(c, "/color")) =>
            \A i \in 1..Len(Registry) :
                SameLetters(Registry[i].variant, TrimmedVariant(c)) =>
                    /\ Answered(c, 200)
                    /\ res[c].body = HexFragment(Registry[i].hex)

C3_Witness ==
    /\ Done(1) /\ IsGet(1, "/color")
    /\ queryGet(req[1].url.params, "variant") = Str(<<"n","A","v","Y">>)
    /\ res[1].body = HexFragment(<<"#000080">>)

(***************************************************************************)
(* C4: every GET /color is answered 200 with the hex code of some registry *)
(* entry, whatever the variant parameter; it never fails.                  *)
(***************************************************************************)
C4_ColorAlwaysValid ==
    \A c \in Conns :
        (pc[c] # "idle" /\ IsGet(c, "/color")) =>
            /\ pc[c] \in {"received", "done"}
            /\ Done(c) =>
                 /\ Answered(c, 200)
                 /\ \E i \in 1..Len(Registry) : res[c].body = HexFragment(Registry[i].hex)

C4_Witness ==
    /\ Done(1) /\ IsGet(1, "/color")
    /\ TrimmedVariant(1) = <<"N","o","p","e">>
    /\ res[1].body = HexFragment(Registry[Len(Registry)].hex)

(***************************************************************************)
(* C5: GET /color without a variant parameter returns the first colour of  *)
(* the registry.                                                           *)
(***************************************************************************)
C5_NoVariantGivesFirst ==
    \A c \in Conns :
        (Done(c) /\ IsGet(c, "/color")
           /\ queryGet(req[c].url.params, "variant") = Undefined) =>
            /\ Answered(c, 200)
            /\ res[c].body = HexFragment(Registry[1].hex)

(***************************************************************************)
(* C6: GET requests are routed by the exact path: '/', '/get-colors' and   *)
(* '/color' answer 200 with their own page, '/get-animal' answers one of   *)
(* 200, 400, 404, 500, and every other path answers 404, whatever the      *)
(* query string.                                                           *)
(***************************************************************************)
C6_ExactPathDispatch ==
    \A c \in Conns :
        (Done(c) /\ req[c].method = "GET") =>
            LET pathname == req[c].url.pathname IN
            /\ res[c].heads = 1 /\ res[c].ends = 1
            /\ pathname = "/" => res[c].status = 200 /\ res[c].body = WelcomePage
            /\ pathname = "/get-colors" => res[c].status = 200 /\ res[c].body = ColorsPage
            /\ pathname = "/color" =>
                 res[c].status = 200 /\ res[c].body[1] = "<p style=color:"
            /\ pathname = "/get-animal" => res[c].status \in {200, 400, 404, 500}
            /\ pathname \notin {"/", "/get-colors", "/color", "/get-animal"} =>
                 res[c].status = 404 /\ res[c].body = NotFoundPage

C6_Witness ==
    /\ Done(1) /\ IsGet(1, "/Color")
    /\ TrimmedVariant(1) = Navy
    /\ res[1].status = 404

C8_FileReadAnew ==
    \A c \in Conns :
        (IsGet(c, "/get-animal") /\ TrimmedVariant(c) # <<>>) =>
            /\ pc[c] \in {"readDone", "done"} =>
                 /\ atRead[c] # NotRead
                 /\ (data[c].status = "ok") <=> (atRead[c].state = "present")
                 /\ data[c].status = "ok" => data[c].content = atRead[c]
            /\ Done(c) =>
                 /\ res[c].status = ExpectedStatus(TrimmedVariant(c), atRead[c])
                 /\ res[c].status = 200 =>
                      ShowsField(res[c].body,
                                 FirstMatch(atRead[c], TrimmedVariant(c)).animalName)
                 /\ \A d \in Conns :
                      (Done(d) /\ IsGet(d, "/get-animal")
                         /\ TrimmedVariant(d) = TrimmedVariant(c)
                         /\ atRead[d] = atRead[c]) =>
                          res[d].body = res[c].body

C8_Witness ==
    /\ Done(1) /\ Done(2) /\ req[1] = req[2]
    /\ IsGet(1, "/get-animal") /\ TrimmedVariant(1) = Navy
    /\ atRead[1] = FileOf("present", "array", TwoNavy)
    /\ atRead[2] # atRead[1] /\ ~ReadFails(atRead[2])
    /\ Contains(res[1].body, Whale)
    /\ Contains(res[2].body, Shark)

(***************************************************************************)
(* C9: a readable file holding a JSON value that is no array makes         *)
(* /get-animal answer 404, never 500; 500 is answered only when the read   *)
(* or the parse fails.                                                     *)
(***************************************************************************)
C9_NonArrayIs404 ==
    \A c \in Conns :
        (Done(c) /\ IsGet(c, "/get-animal") /\ TrimmedVariant(c) # <<>>) =>
            /\ (atRead[c].state = "present" /\ atRead[c].syntax \in NonArrayKinds) =>
                 Answered(c, 404)
            /\ res[c].status = 500 => ReadFails(atRead[c])

C9_Witness ==
    /\ Done(1) /\ IsGet(1, "/get-animal") /\ TrimmedVariant(1) = Navy
    /\ atRead[1] = FileOf("present", "null", <<>>)
    /\ res[1].status = 404

(***************************************************************************)
(* C10: malformed entries never cause a failure: null entries and entries  *)
(* without a variant are skipped, and a matching entry without animalName  *)
(* or urlImage gives a 200 page showing an empty string for the absent     *)
(* field.                                                                  *)
(***************************************************************************)
Blank(field) == IF field.t = "string" THEN field ELSE Str(<<>>)
C10_AbsentFieldsRenderEmpty ==
    \A c \in Conns :
        (Done(c) /\ IsGet(c, "/get-animal")
           /\ ExpectedStatus(TrimmedVariant(c), atRead[c]) = 200) =>
            LET a == FirstMatch(atRead[c], TrimmedVariant(c)) IN
            /\ Answered(c, 200)
            /\ res[c].body = AnimalPage(Entry(a.variant, Blank(a.animalName),
                                              Blank(a.urlImage)))

====
